---- MODULE Spec2Model ----
(***************************************************************************)
(* A model of the GStreamer capture backend of nokhwa                      *)
(* (src/backends/capture/gst_backend.rs): the device handle, the pipeline  *)
(* it holds, the flume channel between the appsink callback and the        *)
(* consumer, and the operations of CaptureBackendTrait.                    *)
(*                                                                         *)
(* The GStreamer engine is outside the repository.  What the model takes   *)
(* from it is stated where it is used: Element::set_state, Element::state, *)
(* the bus, the appsink queue and the streaming thread.                    *)
(***************************************************************************)
EXTENDS Integers, Sequences, FiniteSets, TLC

\* ------------------------------------------------------------------ bounds
\* Pipelines that generate_pipeline builds in one run.
MaxPipelines == 2
\* Buffers the platform delivers to one pipeline.
MaxBuffers == 2
\* Messages waiting on a pipeline's bus.
MaxBus == 2
\* Buffers that reach the appsink before its callbacks are installed.
MaxEarly == 0
\* Successful open_stream / stop_stream calls remembered for the properties.
HistLen == 3

\* ------------------------------------------------------------ format model
DefaultFormat ==
    [resolution |-> <<640, 480>>, format |-> "MJPEG", framerate |-> 15]

NoFormat == [resolution |-> <<0, 0>>, format |-> "NONE", framerate |-> 0]

\* The formats the application asks for in this model.
RequestFormats ==
    { DefaultFormat,
      [resolution |-> <<1280, 720>>, format |-> "MJPEG", framerate |-> 15],
      [resolution |-> <<640, 480>>, format |-> "YUYV", framerate |-> 30] }

\* The values the application passes to set_resolution, set_frame_rate and
\* set_frame_format in this model.
Resolutions == { <<640, 480>>, <<1280, 720>> }

FrameRates == {15, 30}

FrameFormats == {"MJPEG", "YUYV"}

Width(fmt) == fmt.resolution[1]
Height(fmt) == fmt.resolution[2]

\* ------------------------------------------------------- platform pipeline
States == {"Null", "Playing"}

\* Results of Element::set_state.  The pipeline description ends in
\* "appsink ... async=false" behind a live source, so no state change is
\* asynchronous: set_state answers Ok or Err before it returns.
Outcomes == {"Success", "Failure"}

\* What Element::set_state can answer on pipeline p: going to the state the
\* element is already in changes nothing and succeeds.
SetStateOutcomes(p, target) ==
    IF p.cur = target THEN {"Success"} ELSE Outcomes

\* Element::set_state(target) answering out.  A failed change leaves the
\* element's state as it was and is remembered as the last result.  Reaching
\* Null flushes the bus and the appsink queue, stops the streaming thread and
\* forgets the last flow result; reaching Playing starts the thread.
set_state(p, target, out) ==
    IF out = "Failure"
    THEN [p EXCEPT !.lastRet = "Failure"]
    ELSE IF target = "Null"
         THEN [p EXCEPT !.cur = "Null", !.lastRet = "Success",
                        !.flowing = FALSE, !.bus = <<>>, !.sinkq = <<>>,
                        !.flow = "None"]
         ELSE [p EXCEPT !.cur = "Playing", !.lastRet = "Success",
                        !.flowing = TRUE]

\* Element::state(16 ms): (result, current state, pending state).
Probe(p) == [ok |-> p.lastRet # "Failure", from |-> p.cur, to |-> p.pend]

FreePipe ==
    [status |-> "free", fmt |-> NoFormat, cur |-> "Null",
     pend |-> "VoidPending", lastRet |-> "Success", flowing |-> FALSE,
     bus |-> <<>>, sinkq |-> <<>>, produced |-> 0, flow |-> "None"]

DisposedPipe == [FreePipe EXCEPT !.status = "disposed"]

FreeChan == [queue |-> <<>>, tx |-> FALSE, rx |-> FALSE]

\* Bus messages: end of stream, an error, anything else.
BusKinds == {"Eos", "Error", "Other"}

Terminal == {"Eos", "Error"}

\* ------------------------------------------------------------------ buffers
Layouts == {"Yuy2", "Rgb", "Encoded", "Other"}

\* How many bytes decoding (for raw RGB: copying) a buffer yields, against
\* the width * height * 3 of a whole frame.
Sizes == {"short", "exact", "long"}

\* What the platform can hand to the callback: the layout VideoInfo reports,
\* whether the decoder (yuyv422_to_rgb888 / mjpeg_to_rgb888) accepts the
\* bytes, how many bytes it yields, and whether VideoInfo reports an alpha
\* channel.  Raw RGB is copied, never decoded; an unknown layout is not
\* decoded.  Alpha is a property of the layout: YUY2, RGB and encoded video
\* have none, other layouts (RGBA, GRAY8) may.
Kind(layout, decodeOk, size, alpha) ==
    [layout |-> layout, decodeOk |-> decodeOk, size |-> size, alpha |-> alpha]

SampleKinds ==
    { Kind(l, TRUE, z, FALSE) : l \in {"Yuy2", "Encoded", "Rgb"}, z \in Sizes }
    \cup { Kind(l, FALSE, "exact", FALSE) : l \in {"Yuy2", "Encoded"} }
    \cup { Kind("Other", FALSE, "exact", a) : a \in BOOLEAN }

\* The buffers of the streaming model: those of a whole frame.
BufferKinds == { k \in SampleKinds : k.size = "exact" /\ ~k.alpha }

Buffer(n, k) ==
    [n |-> n, layout |-> k.layout, decodeOk |-> k.decodeOk, size |-> k.size,
     alpha |-> k.alpha]

\* One pixel short of a frame, a frame, one pixel more.
DecodedLen(size, w, h) ==
    IF size = "short" THEN w * h * 3 - 3
    ELSE IF size = "long" THEN w * h * 3 + 3
    ELSE w * h * 3

\* A resize that leaves the vector as it is.
resize_keep(len, new_len) == [len |-> len, kept |-> len, zeros |-> 0]

\* Vec::resize(new_len, 0) on a vector of len bytes: the new length, how many
\* of the old bytes it keeps (the first ones) and how many zeros it appends.
resize(len, new_len) ==
    [len |-> new_len,
     kept |-> IF len < new_len THEN len ELSE new_len,
     zeros |-> IF len < new_len THEN new_len - len ELSE 0]

NoFrame == [pipe |-> 0, n |-> 0, len |-> 0]


\* ------------------------------------------------------------ capabilities
\* Option values are sequences: <<>> is None and <<v>> is Some(v).  A text is
\* the sequence of its characters.
NoCaps == <<>>

NoResult == [op |-> "none"]

Digits == {"0", "1", "2", "3", "4", "5", "6", "7", "8", "9"}

DigitValue ==
    "0" :> 0 @@ "1" :> 1 @@ "2" :> 2 @@ "3" :> 3 @@ "4" :> 4 @@
    "5" :> 5 @@ "6" :> 6 @@ "7" :> 7 @@ "8" :> 8 @@ "9" :> 9

\* Digits of a numeral.  Nine digits stay below 2^31, so the numeral fits
\* u32 and the integers of the model checker alike.
MaxDigits == 9

\* "value as u32" leaves an i32 that is not negative as it is; widths and
\* heights are not negative.
AsU32(v) == v

\* The text of a framerate value holding the fractions tokens: a single
\* fraction as it is, several as the list "{ a, b }"; format!("{:?}") then
\* puts it in quotes.
RECURSIVE Join(_)
Join(tokens) ==
    IF Len(tokens) = 1 THEN tokens[1]
    ELSE tokens[1] \o <<",", " ">> \o Join(Tail(tokens))

framerate_string(tokens) ==
    LET body == IF Len(tokens) = 1 THEN tokens[1]
                ELSE <<"{", " ">> \o Join(tokens) \o <<" ", "}">>
    IN  <<"\"">> \o body \o <<"\"">>

\* ---- frame_regex: (\d+/1)|((\d+/\d)+(\d/1)*), matched as the regex crate
\* matches: leftmost, the first alternative first, repetitions greedy.  A
\* match is given by the position after its last character, 0 for none.
At(str, i) == IF i \in 1..Len(str) THEN str[i] ELSE ""

\* The length of the run of digits that starts at i.
RECURSIVE DigitRun(_, _)
DigitRun(str, i) ==
    IF At(str, i) \in Digits THEN 1 + DigitRun(str, i + 1) ELSE 0

\* \d+/1 at i.  The digits must be followed by "/", so \d+ takes the whole run.
MatchWhole(str, i) ==
    LET k == DigitRun(str, i)
    IN  IF k >= 1 /\ At(str, i + k) = "/" /\ At(str, i + k + 1) = "1"
        THEN i + k + 2 ELSE 0

\* \d+/\d at i.
MatchFraction(str, i) ==
    LET k == DigitRun(str, i)
    IN  IF k >= 1 /\ At(str, i + k) = "/" /\ At(str, i + k + 1) \in Digits
        THEN i + k + 2 ELSE 0

\* (\d+/\d)+ at i.
RECURSIVE MatchFractions(_, _)
MatchFractions(str, i) ==
    LET e == MatchFraction(str, i)
    IN  IF e = 0 THEN 0
        ELSE IF MatchFractions(str, e) # 0 THEN MatchFractions(str, e)
        ELSE e

\* (\d/1)* at i: never fails.
RECURSIVE MatchUnits(_, _)
MatchUnits(str, i) ==
    IF At(str, i) \in Digits /\ At(str, i + 1) = "/" /\ At(str, i + 2) = "1"
    THEN MatchUnits(str, i + 3) ELSE i

MatchAt(str, i) ==
    IF MatchWhole(str, i) # 0 THEN MatchWhole(str, i)
    ELSE IF MatchFractions(str, i) # 0
         THEN MatchUnits(str, MatchFractions(str, i))
         ELSE 0

\* frame_regex.find_iter(value): the matches from position i on, in order and
\* without overlap.
RECURSIVE find_iter(_, _)
find_iter(str, i) ==
    IF i > Len(str) THEN <<>>
    ELSE IF MatchAt(str, i) = 0 THEN find_iter(str, i + 1)
    ELSE <<SubSeq(str, i, MatchAt(str, i) - 1)>>
             \o find_iter(str, MatchAt(str, i))

\* str.split('/'): the pieces between the slashes.
RECURSIVE split(_)
split(str) ==
    IF \A i \in 1..Len(str) : str[i] # "/" THEN <<str>>
    ELSE LET j == CHOOSE i \in 1..Len(str) :
                      str[i] = "/" /\ \A h \in 1..(i - 1) : str[h] # "/"
         IN  <<SubSeq(str, 1, j - 1)>> \o split(SubSeq(str, j + 1, Len(str)))

\* The number a text of digits denotes.
RECURSIVE Numeral(_)
Numeral(str) ==
    IF str = <<>> THEN 0
    ELSE 10 * Numeral(SubSeq(str, 1, Len(str) - 1))
             + DigitValue[str[Len(str)]]

\* str.parse::<u32>(): an error on an empty text, on a character that is no
\* digit and on overflow.  A numeral of more than MaxDigits digits counts as
\* overflow; the model has none.
parse_u32(str) ==
    IF str = <<>> \/ (\E i \in 1..Len(str) : str[i] \notin Digits)
       \/ Len(str) > MaxDigits
    THEN [ok |-> FALSE, value |-> 0]
    ELSE [ok |-> TRUE, value |-> Numeral(str)]

\* The loop over the matches: fps_vec, or the error it returns.
RECURSIVE fps_of(_, _)
fps_of(matches, fps_vec) ==
    IF matches = <<>> THEN [ok |-> TRUE, fps |-> fps_vec]
    ELSE LET fraction_string == split(Head(matches))
         IN  IF Len(fraction_string) # 2
             THEN [ok |-> FALSE, fps |-> <<>>]
             ELSE IF fraction_string[2] # <<"1">>
                  THEN fps_of(Tail(matches), fps_vec)
             ELSE IF ~parse_u32(fraction_string[1]).ok
                  THEN [ok |-> FALSE, fps |-> <<>>]
             ELSE fps_of(Tail(matches),
                         Append(fps_vec, parse_u32(fraction_string[1]).value))

\* ---- capability records: the media type, and the optional fields format,
\* width, height and framerate (the fractions it lists).
Capability(name, format, width, height, framerate) ==
    [name |-> name, format |-> format, width |-> width, height |-> height,
     framerate |-> framerate]

unwrap_or_default(opt) == IF opt = <<>> THEN "" ELSE opt[1]

\* The test each branch of "match fourcc" makes on a record.
Matches(capability, fourcc) ==
    IF fourcc = "MJPEG" THEN capability.name = "image/jpeg"
    ELSE /\ capability.name = "video/x-raw"
         /\ unwrap_or_default(capability.format) = "YUY2"

\* HashMap::insert.
insert(map, key, value) ==
    [k \in DOMAIN map \cup {key} |-> IF k = key THEN value ELSE map[k]]

QueryError(op) ==
    [op |-> op, res |-> "Err", why |-> "CouldntQueryDevice",
     map |-> <<>>, list |-> <<>>]

\* A loop body that passes over a record without width, height or framerate.
with_entry_lenient(map, capability) ==
    LET value == framerate_string(capability.framerate[1])
        rates == fps_of(find_iter(value, 1), <<>>)
    IN  IF capability.width = <<>> \/ capability.height = <<>>
           \/ capability.framerate = <<>>
        THEN [ok |-> TRUE, map |-> map]
        ELSE IF ~rates.ok THEN [ok |-> FALSE, map |-> map]
        ELSE [ok |-> TRUE,
              map |-> insert(map,
                             <<AsU32(capability.width[1]),
                               AsU32(capability.height[1])>>,
                             rates.fps)]

\* The body of the loop for a record that matches: the map with the record's
\* entry, or the error.
with_entry(map, capability) ==
    LET value == framerate_string(capability.framerate[1])
        rates == fps_of(find_iter(value, 1), <<>>)
    IN  IF capability.width = <<>> \/ capability.height = <<>>
           \/ capability.framerate = <<>>
        THEN [ok |-> FALSE, map |-> map]
        ELSE IF ~rates.ok THEN [ok |-> FALSE, map |-> map]
        ELSE [ok |-> TRUE,
              map |-> insert(map,
                             <<AsU32(capability.width[1]),
                               AsU32(capability.height[1])>>,
                             rates.fps)]

RECURSIVE scan(_, _, _)
scan(records, fourcc, map) ==
    IF records = <<>> THEN [ok |-> TRUE, map |-> map]
    ELSE IF ~Matches(Head(records), fourcc)
         THEN scan(Tail(records), fourcc, map)
    ELSE IF ~with_entry(map, Head(records)).ok
         THEN [ok |-> FALSE, map |-> map]
    ELSE scan(Tail(records), fourcc, with_entry(map, Head(records)).map)

\* compatible_list_by_resolution(fourcc) on a device whose caps are c.
compatible_list_by_resolution(c, fourcc) ==
    LET op == "compatible_list_by_resolution"
    IN  IF c = NoCaps THEN QueryError(op)
        ELSE IF ~scan(c[1], fourcc, <<>>).ok THEN QueryError(op)
        ELSE [op |-> op, res |-> "Ok", why |-> "",
              map |-> scan(c[1], fourcc, <<>>).map, list |-> <<>>]

\* FrameFormat derives Ord: MJPEG before YUYV.
Rank(fourcc) == IF fourcc = "MJPEG" THEN 0 ELSE 1

\* Vec::sort, by insertion.
RECURSIVE sort(_)
sort(v) ==
    IF v = <<>> THEN <<>>
    ELSE LET rest == sort(Tail(v))
             lower == SelectSeq(rest, LAMBDA x : Rank(x) <= Rank(Head(v)))
             upper == SelectSeq(rest, LAMBDA x : Rank(x) > Rank(Head(v)))
         IN  lower \o <<Head(v)>> \o upper

\* Vec::dedup: of every run of equal neighbours the first is kept.
RECURSIVE dedup(_)
dedup(v) ==
    IF Len(v) <= 1 THEN v
    ELSE IF v[1] = v[2] THEN dedup(Tail(v))
    ELSE <<v[1]>> \o dedup(Tail(v))

\* The loop of compatible_fourcc.
RECURSIVE format_vec(_)
format_vec(records) ==
    IF records = <<>> THEN <<>>
    ELSE IF Head(records).name = "image/jpeg"
         THEN <<"MJPEG">> \o format_vec(Tail(records))
    ELSE IF Head(records).name = "video/x-raw"
            /\ unwrap_or_default(Head(records).format) = "YUY2"
         THEN <<"YUYV">> \o format_vec(Tail(records))
    ELSE format_vec(Tail(records))

\* A compatible_fourcc that does not sort.
compatible_fourcc_unsorted(c) ==
    IF c = NoCaps THEN QueryError("compatible_fourcc")
    ELSE [op |-> "compatible_fourcc", res |-> "Ok", why |-> "",
          map |-> <<>>, list |-> dedup(format_vec(c[1]))]

compatible_fourcc(c) ==
    IF c = NoCaps THEN QueryError("compatible_fourcc")
    ELSE [op |-> "compatible_fourcc", res |-> "Ok", why |-> "",
          map |-> <<>>, list |-> dedup(sort(format_vec(c[1])))]

\* The camera of the streaming model: MJPEG at two resolutions, YUYV at one.
F30_1 == <<"3", "0", "/", "1">>

F15_1 == <<"1", "5", "/", "1">>

DeviceCaps ==
    << << Capability("image/jpeg", <<>>, <<640>>, <<480>>,
                     <<<<F30_1, F15_1>>>>),
          Capability("image/jpeg", <<>>, <<1280>>, <<720>>, <<<<F15_1>>>>),
          Capability("video/x-raw", <<"YUY2">>, <<640>>, <<480>>,
                     <<<<F30_1>>>>) >> >>

\* -------------------------------------------------------------------- state
VARIABLES
    dev,            \* "none" (not built), "open", "dropped" (also by unwinding)
    panicked,       \* a panic has unwound the application thread
    pipeline,       \* self.pipeline: id of the pipeline the device holds
    app_sink,       \* self.app_sink: id of the pipeline whose sink it holds
    receiver,       \* self.receiver: id of the channel whose receiver it holds
    camera_format,  \* self.camera_format
    pipes,          \* the pipelines built so far, by id
    chans,          \* the flume channels built so far, by id
    nbuilt,         \* pipelines built so far
    pc,             \* "idle", or the pull blocked in recv: "frame_raw" / "frame"
    lastOp,         \* the application's last call and what it answered
    pushed,         \* frames sent into the channel the device receives from
    delivered,      \* frames successful pulls returned from that channel
    origin,         \* how the held pipeline was built: by "new", or by
                    \* set_camera_format called while "playing" / "stopped"
    calls,          \* the run of successful open_stream / stop_stream calls
                    \* the application has just made, its latest HistLen
    caps,           \* self.caps: the capability records of the camera
    result          \* what the last capability query or decode answered

vars ==
    <<dev, panicked, pipeline, app_sink, receiver, camera_format, pipes,
      chans, nbuilt, pc, lastOp, pushed, delivered, origin, calls, caps,
      result>>

Ids == 1..MaxPipelines

NoOp ==
    [op |-> "init", res |-> "None", why |-> "",
     startFailed |-> FALSE, fmt |-> NoFormat, ret |-> FALSE,
     hadTerminal |-> FALSE]

Op(name, res, why) == [NoOp EXCEPT !.op = name, !.res = res, !.why = why]

\* The pipeline the device holds is in, or on its way to, Playing.
IsPlaying(p) == p.cur = "Playing" \/ p.pend = "Playing"

Held == pipes[pipeline]

\* The latest HistLen entries of a call history.
Remember(h, c) ==
    LET all == Append(h, c)
    IN  IF Len(all) > HistLen THEN Tail(all) ELSE all

\* ------------------------------------------------------------ frame channel
\* flume::unbounded: send appends, recv takes the oldest.
\* A send into a channel that holds one item: the item does not get in
\* while another waits.
chan_send_bounded(queue, image) ==
    IF queue # <<>> THEN queue ELSE Append(queue, image)

chan_send(queue, image) == Append(queue, image)

\* A receive that takes the newest item.
chan_recv_newest(queue) ==
    [item |-> queue[Len(queue)], rest |-> SubSeq(queue, 1, Len(queue) - 1)]

chan_recv(queue) == [item |-> Head(queue), rest |-> Tail(queue)]

\* A receive that does not wait: an error on an empty channel.
try_recv(ch) ==
    IF ch.queue # <<>>
    THEN [res |-> "Ok", frame |-> chan_recv(ch.queue).item,
          queue |-> chan_recv(ch.queue).rest]
    ELSE [res |-> "Err", frame |-> NoFrame, queue |-> ch.queue]

\* Receiver::recv on channel ch: the oldest item, an error once the channel
\* is empty and every sender is gone, and otherwise it waits.
recv(ch) ==
    IF ch.queue # <<>>
    THEN [res |-> "Ok", frame |-> chan_recv(ch.queue).item,
          queue |-> chan_recv(ch.queue).rest]
    ELSE IF ~ch.tx
         THEN [res |-> "Err", frame |-> NoFrame, queue |-> ch.queue]
         ELSE [res |-> "Block", frame |-> NoFrame, queue |-> ch.queue]

\* ImageBuffer::from_vec(width, height, data) is Some iff data is long enough.
image_from_vec(w, h, len) == len >= w * h * 3

\* ------------------------------------------------------- generate_pipeline
Launches == {"Ok", "ParseError", "NoSink", "NotAppSink"}

\* The buffers that can reach the sink between set_state(Playing) and
\* set_callbacks: numbered from 1, well-formed or not.
EarlyKinds ==
    { Kind("Encoded", TRUE, "exact", FALSE),
      Kind("Other", FALSE, "exact", FALSE) }

EarlySeqs ==
    UNION { { [i \in 1..k |-> Buffer(i, f[i])] : f \in [1..k -> EarlyKinds] }
            : k \in 0..MaxEarly }

\* The platform's answers to one generate_pipeline call: what parse_launch and
\* the sink lookup answer, what set_state(Playing) answers, and the buffers
\* that arrive early (none unless the pipeline is built and started).
GenChoices ==
    { [launch |-> l, out |-> "Success", early |-> <<>>] :
          l \in Launches \ {"Ok"} }
    \cup { [launch |-> "Ok", out |-> "Failure", early |-> <<>>] }
    \cup { [launch |-> "Ok", out |-> "Success", early |-> e] : e \in EarlySeqs }

\* generate_pipeline(fmt, index) building pipeline id: launch is what
\* parse_launch and the sink lookup answer, out what set_state(Playing)
\* answers, early the buffers that arrive before the callbacks are set.
generate_pipeline(fmt, id, launch, out, early) ==
    LET built == [FreePipe EXCEPT !.status = "held", !.fmt = fmt]
        started == set_state(built, "Playing", out)
    IN  IF launch # "Ok"
        THEN [res |-> "Err", pipe |-> FreePipe, chan |-> FreeChan]
        ELSE IF out = "Failure"
             THEN [res |-> "Panic", pipe |-> FreePipe, chan |-> FreeChan]
             ELSE [res |-> "Ok",
                   pipe |-> [started EXCEPT !.sinkq = early,
                                            !.produced = Len(early)],
                   chan |-> [queue |-> <<>>, tx |-> TRUE, rx |-> TRUE]]

\* What dropping the replaced handles does.  A pipeline the device no longer
\* refers to is disposed when it is in Null; GStreamer refuses to dispose an
\* element in another state, which then keeps running with its callback (all
\* the model keeps of it is that it runs).  The
\* sender lives in the sink's callback; a channel's receiver is gone once the
\* device holds another.
ReleasedPipes(ps, pl, as) ==
    [i \in Ids |->
        IF ps[i].status # "held" \/ i \in {pl, as} THEN ps[i]
        ELSE IF ps[i].cur = "Null" THEN DisposedPipe
        ELSE [DisposedPipe EXCEPT !.status = "leaked", !.cur = ps[i].cur,
                                  !.flowing = TRUE]]

ReleasedChans(ps, cs, rx) ==
    [i \in Ids |->
        [queue |-> IF i = rx THEN cs[i].queue ELSE <<>>,
         tx |-> cs[i].tx /\ ps[i].status \in {"held", "leaked"},
         rx |-> cs[i].rx /\ i = rx]]


\* ------------------------------------------------------ device operations
\* The fields of GStreamerCaptureDevice and the objects they refer to.  The
\* operations below map one such record to the next.
Self ==
    [pipeline |-> pipeline, app_sink |-> app_sink, receiver |-> receiver,
     camera_format |-> camera_format, pipes |-> pipes, chans |-> chans]

Answer(res, why, s) ==
    [res |-> res, why |-> why, frame |-> NoFrame, self |-> s]

\* is_stream_open, on what pipeline.state(16 ms) reported.
is_stream_open(probe) ==
    IF probe.ok THEN probe.to = "Playing" ELSE probe.from = "Playing"

\* An open_stream that answers Ok without starting the pipeline.
open_stream_unstarted(s, out) == Answer("Ok", "", s)

\* open_stream, with set_state(Playing) answering out.
open_stream(s, out) ==
    LET next == [s EXCEPT !.pipes[s.pipeline] = set_state(@, "Playing", out)]
    IN  IF out = "Failure"
        THEN Answer("Err", "CouldntOpenStream", next)
        ELSE Answer("Ok", "", next)

\* A stop_stream that refuses a pipeline that is already stopped.
stop_stream_strict(s, out) ==
    LET next == [s EXCEPT !.pipes[s.pipeline] = set_state(@, "Null", out)]
    IN  IF out = "Failure" \/ s.pipes[s.pipeline].cur = "Null"
        THEN Answer("Err", "CouldntStopStream", next)
        ELSE Answer("Ok", "", next)

\* stop_stream, with set_state(Null) answering out.
stop_stream(s, out) ==
    LET next == [s EXCEPT !.pipes[s.pipeline] = set_state(@, "Null", out)]
    IN  IF out = "Failure"
        THEN Answer("Err", "CouldntStopStream", next)
        ELSE Answer("Ok", "", next)

\* The assignments without "self.app_sink = app_sink".
Assign_keep_sink(s, id, gen) ==
    LET ps == [s.pipes EXCEPT ![id] = gen.pipe]
        cs == [s.chans EXCEPT ![id] = gen.chan]
    IN  [s EXCEPT !.pipeline = id, !.receiver = id,
                  !.pipes = ReleasedPipes(ps, id, s.app_sink),
                  !.chans = ReleasedChans(ReleasedPipes(ps, id, s.app_sink),
                                          cs, id)]

\* The assignments without "self.receiver = receiver".
Assign_keep_receiver(s, id, gen) ==
    LET ps == [s.pipes EXCEPT ![id] = gen.pipe]
        cs == [s.chans EXCEPT ![id] = gen.chan]
    IN  [s EXCEPT !.pipeline = id, !.app_sink = id,
                  !.pipes = ReleasedPipes(ps, id, id),
                  !.chans = ReleasedChans(ReleasedPipes(ps, id, id), cs,
                                          s.receiver)]

\* The three assignments of set_camera_format, and the drop of the values
\* they replace.
Assign(s, id, gen) ==
    LET ps == [s.pipes EXCEPT ![id] = gen.pipe]
        cs == [s.chans EXCEPT ![id] = gen.chan]
    IN  [s EXCEPT !.pipeline = id, !.app_sink = id, !.receiver = id,
                  !.pipes = ReleasedPipes(ps, id, id),
                  !.chans = ReleasedChans(ReleasedPipes(ps, id, id), cs, id)]

\* A set_camera_format that records the new format before the pipeline for
\* it is built.
set_camera_format_eager(s, new_fmt, id, so, launch, go, early, oo) ==
    LET reopen == is_stream_open(Probe(s.pipes[s.pipeline]))
        stopped == IF reopen THEN stop_stream(s, so) ELSE Answer("Ok", "", s)
        eager == [stopped.self EXCEPT !.camera_format = new_fmt]
        gen == generate_pipeline(new_fmt, id, launch, go, early)
        assigned == Assign(eager, id, gen)
        opened == IF reopen THEN open_stream(assigned, oo)
                  ELSE Answer("Ok", "", assigned)
    IN  IF stopped.res = "Err" THEN stopped
        ELSE IF gen.res = "Err"
             THEN Answer("Err", "CouldntOpenDevice", eager)
        ELSE IF gen.res = "Panic"
             THEN Answer("Panic", "set_state(Playing).unwrap()", eager)
        ELSE IF opened.res = "Err" THEN opened
        ELSE Answer("Ok", "", opened.self)

\* set_camera_format(new_fmt) building pipeline id.  so, go and oo are what
\* set_state answers in stop_stream, generate_pipeline and open_stream;
\* launch and early are generate_pipeline's other inputs.
set_camera_format(s, new_fmt, id, so, launch, go, early, oo) ==
    LET reopen == is_stream_open(Probe(s.pipes[s.pipeline]))
        stopped == IF reopen THEN stop_stream(s, so) ELSE Answer("Ok", "", s)
        gen == generate_pipeline(new_fmt, id, launch, go, early)
        assigned == Assign(stopped.self, id, gen)
        opened == IF reopen THEN open_stream(assigned, oo)
                  ELSE Answer("Ok", "", assigned)
    IN  IF stopped.res = "Err" THEN stopped
        ELSE IF gen.res = "Err"
             THEN Answer("Err", "CouldntOpenDevice", stopped.self)
        ELSE IF gen.res = "Panic"
             THEN Answer("Panic", "set_state(Playing).unwrap()", stopped.self)
        ELSE IF opened.res = "Err" THEN opened
        ELSE Answer("Ok", "", [opened.self EXCEPT !.camera_format = new_fmt])

\* A set_resolution that starts from the default format.
set_resolution_reset(s, new_res, id, so, launch, go, early, oo) ==
    LET new_fmt == [DefaultFormat EXCEPT !.resolution = new_res]
    IN  set_camera_format(s, new_fmt, id, so, launch, go, early, oo)

\* set_resolution(new_res): set_camera_format of the current format with its
\* resolution replaced.
set_resolution(s, new_res, id, so, launch, go, early, oo) ==
    LET new_fmt == [s.camera_format EXCEPT !.resolution = new_res]
    IN  set_camera_format(s, new_fmt, id, so, launch, go, early, oo)

\* set_frame_rate(new_fps): the same with the frame rate replaced.
set_frame_rate(s, new_fps, id, so, launch, go, early, oo) ==
    LET new_fmt == [s.camera_format EXCEPT !.framerate = new_fps]
    IN  set_camera_format(s, new_fmt, id, so, launch, go, early, oo)

\* A set_frame_format that records the encoding asked for.
set_frame_format_applied(s, fourcc) ==
    Answer("Ok", "", [s EXCEPT !.camera_format.format = fourcc])

\* set_frame_format(fourcc): not supported by this backend.
set_frame_format(s, fourcc) == Answer("Err", "UnsupportedOperation", s)

\* The bus check of frame_raw: one timed_pop(0), and an error for Eos / Error.
bus_check(bus) ==
    IF bus = <<>> THEN [err |-> FALSE, why |-> "", bus |-> bus]
    ELSE IF Head(bus) \in Terminal
         THEN [err |-> TRUE, why |-> Head(bus), bus |-> Tail(bus)]
         ELSE [err |-> FALSE, why |-> "", bus |-> Tail(bus)]

\* The receive of frame_raw and, for api = "frame", the conversion of frame.
pull(s, api) ==
    LET r == recv(s.chans[s.receiver])
        next == [s EXCEPT !.chans[s.receiver].queue = r.queue]
        fits == image_from_vec(Width(s.camera_format),
                               Height(s.camera_format), r.frame.len)
    IN  IF r.res = "Block" THEN Answer("Block", "", s)
        ELSE IF r.res = "Err" THEN Answer("Err", "Receiver Error", s)
        ELSE IF api = "frame" /\ ~fits
             THEN Answer("Err", "Imagebuffer is not large enough", next)
             ELSE [Answer("Ok", "", next) EXCEPT !.frame = r.frame]

\* frame_raw (api = "frame_raw") and frame (api = "frame") up to the point
\* where recv returns or waits.
frame_raw(s, api) ==
    LET b == bus_check(s.pipes[s.pipeline].bus)
        checked == [s EXCEPT !.pipes[s.pipeline].bus = b.bus]
    IN  IF b.err THEN Answer("Err", b.why, checked)
        ELSE pull(checked, api)

\* Drop for GStreamerCaptureDevice, with set_state(Null) answering out; the
\* fields are dropped after it.
drop(s, out) ==
    LET ps == [s.pipes EXCEPT ![s.pipeline] = set_state(@, "Null", out)]
        gone == [s EXCEPT !.pipes = ReleasedPipes(ps, 0, 0),
                          !.chans = ReleasedChans(ReleasedPipes(ps, 0, 0),
                                                  s.chans, 0)]
    IN  IF out = "Failure"
        THEN Answer("Panic", "set_state(Null).unwrap()", gone)
        ELSE Answer("Ok", "", gone)

\* The new_sample callback of pipeline id: it pulls the oldest sample of the
\* sink, decodes it and sends the image; any failure is a FlowError, which
\* the pipeline remembers (flow) and on which the source stops streaming.
Decodable(b) == b.layout \in {"Yuy2", "Rgb", "Encoded"} /\ b.decodeOk

new_sample(id, p, ch) ==
    LET sample == Head(p.sinkq)
        taken == [p EXCEPT !.sinkq = Tail(p.sinkq)]
        width == Width(p.fmt)
        height == Height(p.fmt)
        channels == IF sample.alpha THEN 4 ELSE 3
        decoded_buffer == resize(DecodedLen(sample.size, width, height),
                                 width * height * channels)
        image == [pipe |-> id, n |-> sample.n, len |-> decoded_buffer.len]
        failed == [taken EXCEPT !.flowing = FALSE, !.flow = "Error",
                      !.bus = IF p.status = "held"
                              THEN Append(@, "Error") ELSE @]
    IN  IF ~Decodable(sample)
        THEN [flow |-> "Error", frame |-> NoFrame, chan |-> ch,
              vec |-> resize(0, 0), pipe |-> failed]
        ELSE IF ~image_from_vec(width, height, decoded_buffer.len)
        THEN [flow |-> "Error", frame |-> NoFrame, chan |-> ch,
              vec |-> decoded_buffer, pipe |-> failed]
        ELSE IF ~ch.rx
             THEN [flow |-> "Error", frame |-> NoFrame, chan |-> ch,
                   vec |-> decoded_buffer,
                   pipe |-> [taken EXCEPT !.flowing = FALSE,
                                          !.flow = "Error"]]
             ELSE [flow |-> "Ok", frame |-> image, vec |-> decoded_buffer,
                   pipe |-> [taken EXCEPT !.flow = "Ok"],
                   chan |-> [ch EXCEPT !.queue = chan_send(@, image)]]


\* GStreamerCaptureDevice::new(index, cam_fmt) building pipeline id.  found is
\* whether gstreamer::init and the device lookup succeed; NoFormat stands for
\* cam_fmt = None.
new(cam_fmt, id, found, launch, out, early) ==
    LET fmt == IF cam_fmt = NoFormat THEN DefaultFormat ELSE cam_fmt
        gen == generate_pipeline(fmt, id, launch, out, early)
        none == [pipeline |-> 0, app_sink |-> 0, receiver |-> 0,
                 camera_format |-> NoFormat, pipes |-> pipes, chans |-> chans]
        built == [pipeline |-> id, app_sink |-> id, receiver |-> id,
                  camera_format |-> fmt,
                  pipes |-> [pipes EXCEPT ![id] = gen.pipe],
                  chans |-> [chans EXCEPT ![id] = gen.chan]]
    IN  IF ~found THEN Answer("Err", "CouldntOpenDevice", none)
        ELSE IF gen.res = "Err" THEN Answer("Err", "CouldntOpenDevice", none)
        ELSE IF gen.res = "Panic"
             THEN Answer("Panic", "set_state(Playing).unwrap()", none)
             ELSE Answer("Ok", "", built)

\* ----------------------------------------------------------------- actions
Init ==
    /\ dev = "none"
    /\ panicked = FALSE
    /\ pipeline = 0
    /\ app_sink = 0
    /\ receiver = 0
    /\ camera_format = NoFormat
    /\ pipes = [i \in Ids |-> FreePipe]
    /\ chans = [i \in Ids |-> FreeChan]
    /\ nbuilt = 0
    /\ pc = "idle"
    /\ lastOp = NoOp
    /\ pushed = <<>>
    /\ delivered = <<>>
    /\ origin = "none"
    /\ calls = <<>>
    /\ caps = NoCaps
    /\ result = NoResult

\* What is left of the device's objects once a panic unwinds the thread that
\* owns them: nothing the application can call.
Unwound(s) ==
    [pipeline |-> 0, app_sink |-> 0, receiver |-> 0,
     camera_format |-> NoFormat,
     pipes |-> ReleasedPipes(s.pipes, 0, 0),
     chans |-> ReleasedChans(ReleasedPipes(s.pipes, 0, 0), s.chans, 0)]

Apply(s) ==
    /\ pipeline' = s.pipeline
    /\ app_sink' = s.app_sink
    /\ receiver' = s.receiver
    /\ camera_format' = s.camera_format
    /\ pipes' = s.pipes
    /\ chans' = s.chans

\* A device whose operations do not wait for one another.
CanCall_shared == dev = "open" /\ ~panicked

\* The application may call the device: it exists and no call is in progress
\* (every operation borrows the device, &self or &mut self, from one owner).
CanCall == dev = "open" /\ ~panicked /\ pc = "idle"

New(cam_fmt) ==
    /\ dev = "none" /\ ~panicked /\ nbuilt < MaxPipelines
    /\ \E found \in BOOLEAN, g \in GenChoices :
       \E a \in {new(cam_fmt, nbuilt + 1, found, g.launch, g.out, g.early)} :
              /\ found \/ g = [launch |-> "Ok", out |-> "Success",
                                early |-> <<>>]
              /\ Apply(a.self)
              /\ dev' = IF a.res = "Ok" THEN "open" ELSE "none"
              /\ panicked' = (a.res = "Panic")
              /\ nbuilt' = IF a.res = "Ok" THEN nbuilt + 1 ELSE nbuilt
              /\ lastOp' = [Op("new", a.res, "") EXCEPT
                              !.startFailed = found /\ g.launch = "Ok"
                                              /\ g.out = "Failure"]
              /\ origin' = IF a.res = "Ok" THEN "new" ELSE "none"
              /\ caps' = IF a.res = "Ok" THEN DeviceCaps ELSE NoCaps
    /\ UNCHANGED <<pc, pushed, delivered, calls, result>>

\* What a call of set_camera_format, set_resolution or set_frame_rate (api)
\* that asked for format req and answered a does to the state; so, g and oo
\* are the platform's answers the call met.
Configure(api, req, a, so, g, oo) ==
    LET reopen == is_stream_open(Probe(Held))
        replaced == a.self.receiver # receiver
        rebuilt == a.self.pipeline # pipeline
        first == [launch |-> "Ok", out |-> "Success", early |-> <<>>]
    IN  /\ so \in (IF reopen THEN SetStateOutcomes(Held, "Null")
                   ELSE {"Success"})
        /\ so = "Success" \/ g = first
        /\ oo \in (IF reopen /\ g.launch = "Ok" /\ g.out = "Success"
                         /\ so = "Success"
                   THEN SetStateOutcomes(a.self.pipes[a.self.pipeline],
                                         "Playing")
                   ELSE {"Success"})
        /\ Apply(IF a.res = "Panic" THEN Unwound(a.self) ELSE a.self)
        /\ panicked' = (a.res = "Panic")
        /\ dev' = IF a.res = "Panic" THEN "dropped" ELSE dev
        /\ nbuilt' = IF a.self.pipes[nbuilt + 1].status = "free"
                     THEN nbuilt ELSE nbuilt + 1
        /\ pushed' = IF replaced \/ a.res = "Panic" THEN <<>>
                     ELSE pushed
        /\ delivered' = IF replaced \/ a.res = "Panic" THEN <<>>
                        ELSE delivered
        /\ origin' = IF a.res = "Panic" THEN "none"
                     ELSE IF ~rebuilt THEN origin
                     ELSE IF IsPlaying(Held) THEN "playing"
                     ELSE "stopped"
        /\ lastOp' = [Op(api, a.res, "") EXCEPT
                        !.fmt = IF a.res = "Ok" THEN req ELSE NoFormat,
                        !.startFailed = a.res = "Panic"
                                        \/ a.why = "CouldntOpenStream"]
        /\ calls' = <<>>
        /\ caps' = IF a.res = "Panic" THEN NoCaps ELSE caps
        /\ UNCHANGED <<pc, result>>

SetCameraFormat(new_fmt) ==
    /\ CanCall /\ nbuilt < MaxPipelines
    /\ \E so \in Outcomes, g \in GenChoices, oo \in Outcomes :
       \E a \in {set_camera_format(Self, new_fmt, nbuilt + 1, so, g.launch,
                                    g.out, g.early, oo)} :
          Configure("set_camera_format", new_fmt, a, so, g, oo)

SetResolution(new_res) ==
    /\ CanCall /\ nbuilt < MaxPipelines
    /\ \E so \in Outcomes, g \in GenChoices, oo \in Outcomes :
       \E a \in {set_resolution(Self, new_res, nbuilt + 1, so, g.launch,
                                 g.out, g.early, oo)} :
          Configure("set_resolution",
                    [camera_format EXCEPT !.resolution = new_res],
                    a, so, g, oo)

SetFrameRate(new_fps) ==
    /\ CanCall /\ nbuilt < MaxPipelines
    /\ \E so \in Outcomes, g \in GenChoices, oo \in Outcomes :
       \E a \in {set_frame_rate(Self, new_fps, nbuilt + 1, so, g.launch,
                                 g.out, g.early, oo)} :
          Configure("set_frame_rate",
                    [camera_format EXCEPT !.framerate = new_fps],
                    a, so, g, oo)

SetFrameFormat(fourcc) ==
    /\ CanCall
    /\ \E a \in {set_frame_format(Self, fourcc)} :
           /\ Apply(a.self)
           /\ lastOp' = Op("set_frame_format", a.res, a.why)
    /\ calls' = <<>>
    /\ UNCHANGED <<dev, panicked, nbuilt, pc, pushed, delivered, origin,
                   caps, result>>

OpenStream ==
    /\ CanCall
    /\ \E out \in SetStateOutcomes(Held, "Playing") :
       \E a \in {open_stream(Self, out)} :
              /\ Apply(a.self)
              /\ calls' = IF a.res = "Ok" THEN Remember(calls, "open")
                          ELSE <<>>
              /\ lastOp' = [Op("open_stream", a.res, a.why) EXCEPT
                              !.startFailed = out = "Failure"]
    /\ UNCHANGED <<dev, panicked, nbuilt, pc, pushed, delivered, origin,
                   caps, result>>

StopStream ==
    /\ CanCall
    /\ \E out \in SetStateOutcomes(Held, "Null") :
       \E a \in {stop_stream(Self, out)} :
              /\ Apply(a.self)
              /\ calls' = IF a.res = "Ok" THEN Remember(calls, "stop")
                          ELSE <<>>
              /\ lastOp' = Op("stop_stream", a.res, a.why)
    /\ UNCHANGED <<dev, panicked, nbuilt, pc, pushed, delivered, origin,
                   caps, result>>

IsStreamOpen ==
    /\ CanCall
    /\ lastOp' = [Op("is_stream_open", "Ok", "") EXCEPT
                    !.ret = is_stream_open(Probe(Held))]
    /\ calls' = <<>>
    /\ UNCHANGED <<dev, panicked, pipeline, app_sink, receiver, camera_format,
                   pipes, chans, nbuilt, pc, pushed, delivered, origin,
                   caps, result>>

\* A pull: frame_raw or frame.  It returns, or it stays in recv.
FrameRaw(api) ==
    /\ CanCall
    /\ \E a \in {frame_raw(Self, api)} :
           /\ Apply(a.self)
           /\ pc' = IF a.res = "Block" THEN api ELSE "idle"
           /\ delivered' = IF a.res = "Ok" THEN Append(delivered, a.frame)
                           ELSE delivered
           /\ lastOp' = [Op(api, a.res, a.why) EXCEPT
                           !.hadTerminal =
                               \E i \in 1..Len(Held.bus) :
                                   Held.bus[i] \in Terminal]
    /\ calls' = <<>>
    /\ UNCHANGED <<dev, panicked, nbuilt, pushed, origin, caps, result>>

\* The pull waiting in recv returns: a frame has come, or the senders went.
RecvWake ==
    /\ dev = "open" /\ ~panicked /\ pc # "idle"
    /\ \E a \in {pull(Self, pc)} :
           /\ a.res # "Block"
           /\ Apply(a.self)
           /\ delivered' = IF a.res = "Ok" THEN Append(delivered, a.frame)
                           ELSE delivered
           /\ lastOp' = [lastOp EXCEPT !.res = a.res, !.why = a.why]
    /\ pc' = "idle"
    /\ UNCHANGED <<dev, panicked, nbuilt, pushed, origin, calls, caps,
                   result>>

Drop ==
    /\ CanCall
    /\ \E out \in SetStateOutcomes(Held, "Null") :
       \E a \in {drop(Self, out)} :
              /\ Apply([a.self EXCEPT !.pipeline = 0, !.app_sink = 0,
                                      !.receiver = 0])
              /\ panicked' = (a.res = "Panic")
              /\ lastOp' = Op("drop", a.res, "")
    /\ dev' = "dropped"
    /\ pushed' = <<>>
    /\ delivered' = <<>>
    /\ origin' = "none"
    /\ calls' = <<>>
    /\ caps' = NoCaps
    /\ UNCHANGED <<nbuilt, pc, result>>

\* The platform's streaming thread hands one more buffer to the sink of
\* pipeline id, and the sink calls new_sample.
Arrive(id) ==
    /\ ~panicked
    /\ pipes[id].status \in {"held", "leaked"}
    /\ pipes[id].cur = "Playing" /\ pipes[id].flowing
    /\ pipes[id].produced < MaxBuffers
    /\ \E k \in BufferKinds :
       \E r \in {new_sample(id, [pipes[id] EXCEPT
                                    !.sinkq = Append(@,
                                        Buffer(pipes[id].produced + 1, k))],
                              chans[id])} :
          LET p == pipes[id]
              n == p.produced + 1
          IN  /\ Len(r.pipe.bus) <= MaxBus
              /\ pipes' = [pipes EXCEPT
                             ![id] = IF p.status = "held"
                                     THEN [r.pipe EXCEPT !.produced = n]
                                     ELSE p]
              /\ chans' = [chans EXCEPT ![id] = r.chan]
              /\ pushed' = IF r.flow = "Ok" /\ id = receiver
                           THEN Append(pushed, r.frame) ELSE pushed
    /\ UNCHANGED <<dev, panicked, pipeline, app_sink, receiver, camera_format,
                   nbuilt, pc, lastOp, delivered, origin, calls, caps,
                   result>>


\* The platform posts a message on the bus of the held pipeline.  End of
\* stream and errors come from the streaming thread, which then streams no
\* more; the bound leaves out messages behind one of them.
BusPost(kind) ==
    /\ dev = "open" /\ ~panicked
    /\ Held.cur = "Playing"
    /\ Len(Held.bus) < MaxBus
    /\ \A i \in 1..Len(Held.bus) : Held.bus[i] \notin Terminal
    /\ kind \in Terminal => Held.flowing
    /\ pipes' = [pipes EXCEPT
                   ![pipeline].bus = Append(@, kind),
                   ![pipeline].flowing = @ /\ kind = "Other"]
    /\ UNCHANGED <<dev, panicked, pipeline, app_sink, receiver, camera_format,
                   chans, nbuilt, pc, lastOp, pushed, delivered, origin,
                   calls, caps, result>>

Next ==
    \/ \E cam_fmt \in RequestFormats \cup {NoFormat} : New(cam_fmt)
    \/ \E new_fmt \in RequestFormats : SetCameraFormat(new_fmt)
    \/ \E new_res \in Resolutions : SetResolution(new_res)
    \/ \E new_fps \in FrameRates : SetFrameRate(new_fps)
    \/ \E fourcc \in FrameFormats : SetFrameFormat(fourcc)
    \/ OpenStream
    \/ StopStream
    \/ IsStreamOpen
    \/ \E api \in {"frame_raw", "frame"} : FrameRaw(api)
    \/ RecvWake
    \/ Drop
    \/ \E id \in Ids : Arrive(id)
    \/ \E kind \in BusKinds : BusPost(kind)

Spec == Init /\ [][Next]_vars

\* ------------------------------------------------------ the decode callback
\* The state after new(index, Some(fmt)) has built the device on a camera
\* with capability records c.
Constructed(fmt, c) ==
    LET gen == generate_pipeline(fmt, 1, "Ok", "Success", <<>>)
    IN  /\ dev = "open"
        /\ panicked = FALSE
        /\ pipeline = 1
        /\ app_sink = 1
        /\ receiver = 1
        /\ camera_format = fmt
        /\ pipes = [i \in Ids |-> IF i = 1 THEN gen.pipe ELSE FreePipe]
        /\ chans = [i \in Ids |-> IF i = 1 THEN gen.chan ELSE FreeChan]
        /\ nbuilt = 1
        /\ pc = "idle"
        /\ lastOp = Op("new", "Ok", "")
        /\ pushed = <<>>
        /\ delivered = <<>>
        /\ origin = "new"
        /\ calls = <<>>
        /\ caps = c
        /\ result = NoResult

\* Every format an application can ask for in this model.
AllFormats ==
    [resolution : Resolutions, format : FrameFormats, framerate : FrameRates]

InitDecode == \E fmt \in AllFormats : Constructed(fmt, DeviceCaps)

\* The sink of the held pipeline gets a buffer of kind k and calls new_sample;
\* result keeps what the callback did with it.
Sample(k) ==
    /\ dev = "open" /\ ~panicked
    /\ Held.cur = "Playing" /\ Held.flowing
    /\ Held.produced < MaxBuffers
    /\ \E r \in {new_sample(pipeline,
                            [Held EXCEPT
                                !.sinkq = Append(@, Buffer(Held.produced + 1,
                                                           k))],
                            chans[pipeline])} :
          /\ Len(r.pipe.bus) <= MaxBus
          /\ pipes' = [pipes EXCEPT
                         ![pipeline] = [r.pipe EXCEPT
                                           !.produced = Held.produced + 1]]
          /\ chans' = [chans EXCEPT ![pipeline] = r.chan]
          /\ pushed' = IF r.flow = "Ok" THEN Append(pushed, r.frame)
                       ELSE pushed
          /\ result' = [op |-> "new_sample", arg |-> k,
                        ans |-> [flow |-> r.flow, frame |-> r.frame,
                                 vec |-> r.vec]]
    /\ UNCHANGED <<dev, panicked, pipeline, app_sink, receiver, camera_format,
                   nbuilt, pc, lastOp, delivered, origin, calls, caps>>

NextDecode == \E k \in SampleKinds : Sample(k)

SpecDecode == InitDecode /\ [][NextDecode]_vars

\* ---------------------------------------------------- capability queries
\* The fractions a framerate field lists in this model: whole rates, rates
\* that are not whole, and texts that are no fraction.
F60_1 == <<"6", "0", "/", "1">>

F15_2 == <<"1", "5", "/", "2">>

F30_10 == <<"3", "0", "/", "1", "0">>

F30000_1001 == <<"3", "0", "0", "0", "0", "/", "1", "0", "0", "1">>

F30_1_1 == <<"3", "0", "/", "1", "/", "1">>

F15_23_4 == <<"1", "5", "/", "2", "3", "/", "4">>

NoNumerator == <<"/", "1">>

NoDenominator == <<"3", "0", "/">>

Tokens ==
    { F30_1, F60_1, F15_2, F30_10, F30000_1001, F30_1_1, F15_23_4,
      NoNumerator, NoDenominator }

\* Fractions one framerate field lists.
MaxTokens == 2

TokenLists ==
    UNION { [1..k -> Tokens] : k \in 1..MaxTokens }
    \cup { <<F30_1, F15_2, F60_1>> }

\* The records the queries are tried on: every media type and format, with
\* and without each field, with every list of fractions.
ProbeRecords ==
    { Capability(n.name, n.format, d.width, d.height, f) :
        n \in { [name |-> "image/jpeg", format |-> <<>>],
                [name |-> "video/x-raw", format |-> <<"YUY2">>],
                [name |-> "video/x-raw", format |-> <<"RGB">>],
                [name |-> "video/x-raw", format |-> <<>>] },
        d \in { [width |-> <<640>>, height |-> <<480>>],
                [width |-> <<>>, height |-> <<480>>],
                [width |-> <<640>>, height |-> <<>>] },
        f \in {<<>>} \cup { <<l>> : l \in TokenLists } }

\* The records that stand next to them.
PlainRecords ==
    { Capability("image/jpeg", <<>>, <<640>>, <<480>>, <<<<F30_1>>>>),
      Capability("image/jpeg", <<>>, <<1280>>, <<720>>, <<>>),
      Capability("video/x-raw", <<"YUY2">>, <<640>>, <<480>>, <<<<F60_1>>>>),
      Capability("video/x-raw", <<"RGB">>, <<>>, <<>>, <<>>) }

CapsChoices ==
    {NoCaps}
    \cup { << <<p>> >> : p \in ProbeRecords }
    \cup { << <<p, q>> >> : p \in ProbeRecords, q \in PlainRecords }
    \cup { << <<q, p>> >> : p \in ProbeRecords, q \in PlainRecords }

InitQuery == \E c \in CapsChoices : Constructed(DefaultFormat, c)

CompatibleListByResolution(fourcc) ==
    /\ CanCall
    /\ result' = [op |-> "compatible_list_by_resolution", arg |-> fourcc,
                  ans |-> compatible_list_by_resolution(caps, fourcc)]
    /\ UNCHANGED <<dev, panicked, pipeline, app_sink, receiver, camera_format,
                   pipes, chans, nbuilt, pc, lastOp, pushed, delivered,
                   origin, calls, caps>>

CompatibleFourcc ==
    /\ CanCall
    /\ result' = [op |-> "compatible_fourcc", arg |-> "",
                  ans |-> compatible_fourcc(caps)]
    /\ UNCHANGED <<dev, panicked, pipeline, app_sink, receiver, camera_format,
                   pipes, chans, nbuilt, pc, lastOp, pushed, delivered,
                   origin, calls, caps>>

\* Fraction token denotes the whole rate.
Denotes(token, rate) ==
    LET parts == split(token)
    IN  /\ Len(parts) = 2
        /\ parse_u32(parts[1]).ok /\ parse_u32(parts[2]).ok
        /\ parse_u32(parts[2]).value > 0
        /\ parse_u32(parts[1]).value = rate * parse_u32(parts[2]).value

\* The camera advertises format fmt: a record of its media type has its
\* resolution and lists its rate.
Advertised(c, fmt) ==
    /\ c # NoCaps
    /\ \E j \in 1..Len(c[1]) :
          /\ Matches(c[1][j], fmt.format)
          /\ c[1][j].width = <<fmt.resolution[1]>>
          /\ c[1][j].height = <<fmt.resolution[2]>>
          /\ c[1][j].framerate # <<>>
          /\ \E t \in 1..Len(c[1][j].framerate[1]) :
                Denotes(c[1][j].framerate[1][t], fmt.framerate)

\* The application asks set_camera_format for an entry of the catalog the
\* last query returned.  The platform accepts what the camera advertises and
\* answers anything to what it does not.
RequestListed ==
    /\ CanCall /\ nbuilt < MaxPipelines
    /\ result.op = "compatible_list_by_resolution" /\ result.ans.res = "Ok"
    /\ \E res \in DOMAIN result.ans.map :
       \E i \in 1..Len(result.ans.map[res]) :
       \E so \in Outcomes, g \in GenChoices, oo \in Outcomes :
          LET fmt == [resolution |-> res, format |-> result.arg,
                      framerate |-> result.ans.map[res][i]]
          IN  /\ Advertised(caps, fmt)
                    => g = [launch |-> "Ok", out |-> "Success",
                            early |-> <<>>]
              /\ \E a \in {set_camera_format(Self, fmt, nbuilt + 1, so,
                                             g.launch, g.out, g.early, oo)} :
                    Configure("set_camera_format", fmt, a, so, g, oo)

NextQuery ==
    \/ \E fourcc \in FrameFormats : CompatibleListByResolution(fourcc)
    \/ CompatibleFourcc
    \/ RequestListed

SpecQuery == InitQuery /\ [][NextQuery]_vars



\* ------------------------------------------- construction against the
\* streaming thread
\* generate_pipeline sets the pipeline to Playing before it sets the
\* callbacks: the streaming thread, which runs from then on, can hand a buffer
\* to the sink in between.  The one buffer of this model that does:
RaceSeqs == { <<Buffer(1, k)>> : k \in EarlyKinds }

\* new(index, cam_fmt) on a camera that is found and starts, with the
\* streaming thread handing the buffers early to the sink before
\* set_callbacks.
NewRacing(cam_fmt) ==
    /\ dev = "none" /\ ~panicked /\ nbuilt < MaxPipelines
    /\ \E early \in RaceSeqs :
       \E a \in {new(cam_fmt, nbuilt + 1, TRUE, "Ok", "Success", early)} :
              /\ Apply(a.self)
              /\ dev' = "open"
              /\ panicked' = FALSE
              /\ nbuilt' = nbuilt + 1
              /\ lastOp' = Op("new", a.res, "")
              /\ origin' = "new"
              /\ caps' = DeviceCaps
    /\ UNCHANGED <<pc, pushed, delivered, calls, result>>

NextBuild ==
    \/ \E cam_fmt \in RequestFormats \cup {NoFormat} : NewRacing(cam_fmt)
    \/ \E id \in Ids : Arrive(id)
    \/ \E api \in {"frame_raw", "frame"} : FrameRaw(api)
    \/ RecvWake
    \/ OpenStream
    \/ StopStream
    \/ Drop

SpecBuild == Init /\ [][NextBuild]_vars

\* ------------------------------------------------ pulls against the
\* streaming thread
\* A device that streams while the application pulls, opens and stops.  The
\* receive that waits returns once it can (recv wakes when an item is sent),
\* and the streaming thread of a pipeline that is Playing keeps handing
\* buffers to the sink.
NextPull ==
    \/ \E api \in {"frame_raw", "frame"} : FrameRaw(api)
    \/ RecvWake
    \/ \E id \in Ids : Arrive(id)
    \/ \E kind \in BusKinds : BusPost(kind)
    \/ OpenStream
    \/ StopStream

SpecPull ==
    /\ \E fmt \in RequestFormats : Constructed(fmt, DeviceCaps)
    /\ [][NextPull]_vars
    /\ WF_vars(RecvWake)
    /\ WF_vars(\E id \in Ids : Arrive(id))

\* ------------------------------------------------------------- properties
Pulls == {"frame_raw", "frame"}

FramesOf(q) == { q[i] : i \in 1..Len(q) }

\* C1: FIFO delivery.  On the channel the device receives from, the frames
\* the successful pulls have returned, followed by the frames still queued,
\* are exactly the frames the callback pushed, in the order it pushed them:
\* the k-th successful pull returned the k-th frame, none was reordered,
\* duplicated or dropped.
C1_FifoDelivery ==
    dev = "open" => pushed = delivered \o chans[receiver].queue

\* Two frames were pushed and both have been returned.
C1_Witness ==
    /\ dev = "open"
    /\ Len(delivered) >= 2
    /\ delivered[1].n < delivered[2].n

\* C2: after stop_stream has returned Ok, no pull waits in recv and every
\* pull made since has ended with the closed-channel (receiver) error.
C2_PullAfterStopFails ==
    (dev = "open" /\ Held.cur = "Null" /\ Held.lastRet = "Success")
        => /\ pc = "idle"
           /\ lastOp.op \in Pulls
                 => lastOp.res = "Err" /\ lastOp.why = "Receiver Error"

\* C3: after set_camera_format(new_fmt) called while Playing has returned Ok,
\* the pipeline is Playing and camera_format() is new_fmt, and while the
\* pipeline built by that call is held every frame a pull has returned, or can
\* still return, was produced by it.
C3_ReconfigureWhilePlaying ==
    /\ (lastOp.op = "set_camera_format" /\ lastOp.res = "Ok"
            /\ origin = "playing")
          => /\ IsPlaying(Held)
             /\ camera_format = lastOp.fmt
             /\ Held.fmt = lastOp.fmt
    /\ (dev = "open" /\ origin = "playing")
          => \A f \in FramesOf(delivered) \cup FramesOf(chans[receiver].queue) :
                f.pipe = pipeline

\* A pull has returned a frame of the pipeline built by a reconfiguration
\* that was made while Playing.
C3_Witness ==
    /\ dev = "open" /\ origin = "playing"
    /\ lastOp.op \in Pulls /\ lastOp.res = "Ok"
    /\ Len(delivered) >= 1

\* C4: after set_camera_format called while the pipeline was not Playing has
\* returned Ok, the new pipeline is not Playing and has produced no frame
\* (until the application's next call).
C4_StoppedStaysStopped ==
    (lastOp.op = "set_camera_format" /\ lastOp.res = "Ok"
        /\ origin = "stopped")
        => ~IsPlaying(Held) /\ Held.produced = 0

\* C5: is_stream_open() answers true iff the current or the pending state the
\* probe reports is Playing, whatever the probe's result.
C5_OpenIffEitherPlaying ==
    lastOp.op = "is_stream_open"
        => (lastOp.ret <=> (Probe(Held).from = "Playing"
                              \/ Probe(Held).to = "Playing"))

\* C6: after a run of successful open_stream / stop_stream calls the pipeline
\* is Playing iff the last of them was open_stream.
C6_LastStreamCallDecides ==
    (dev = "open" /\ calls # <<>>)
        => (IsPlaying(Held) <=> calls[Len(calls)] = "open")

\* open_stream(); stop_stream(); open_stream() has ended in Playing.
C6_Witness ==
    /\ dev = "open"
    /\ calls = <<"open", "stop", "open">>
    /\ IsPlaying(Held)

\* C7: stop_stream() on a pipeline that is already stopped returns Ok and
\* leaves the pipeline's state, the handles, the channels and camera_format
\* as they were (of the pipeline, only the remembered result of the last
\* state change can differ).
C7_StopIdempotent ==
    [][(StopStream /\ Held.cur = "Null")
          => /\ lastOp'.res = "Ok"
             /\ UNCHANGED <<pipeline, app_sink, receiver, camera_format,
                            chans, dev>>
             /\ pipes' = [pipes EXCEPT ![pipeline].lastRet = "Success"]]_vars

\* Two stop_stream calls in a row have returned Ok.
C7_Witness ==
    /\ dev = "open"
    /\ Len(calls) >= 2
    /\ calls[Len(calls)] = "stop" /\ calls[Len(calls) - 1] = "stop"
    /\ Held.cur = "Null"

\* C8: dropping the device never panics.
C8_DropNeverPanics ==
    lastOp.op = "drop" => lastOp.res # "Panic" /\ ~panicked

\* C9: when the pipeline cannot enter Playing, the operation that tried to
\* start it (new, set_camera_format, open_stream) returns an error and does
\* not panic.
C9_StartFailureIsAnError ==
    lastOp.startFailed => lastOp.res = "Err"

\* C10: a pull called with an end-of-stream or error message anywhere on the
\* bus returns a capture error for it and does not wait on the channel.
C10_BusDrained ==
    (lastOp.op \in Pulls /\ lastOp.hadTerminal)
        => lastOp.res = "Err" /\ lastOp.why \in Terminal

\* C11: a buffer the callback fails (unknown layout, decode failure) fails
\* only that frame: the held pipeline, still Playing, goes on streaming, so
\* that a well-formed buffer can arrive afterwards and be pushed and pulled.
C11_BadBufferFailsOnlyThatFrame ==
    (dev = "open" /\ Held.cur = "Playing" /\ Held.flow = "Error")
        => Held.flowing

C19_SetFrameFormatUnsupported ==
    [][\A f \in FrameFormats :
          (lastOp'.op = "set_frame_format" /\ SetFrameFormat(f))
              => /\ lastOp'.res = "Err"
                 /\ lastOp'.why = "UnsupportedOperation"
                 /\ UNCHANGED <<dev, pipeline, app_sink, receiver,
                                camera_format, pipes, chans>>]_vars

\* set_frame_format(YUYV) has been called on a Playing MJPEG device.
C19_Witness ==
    /\ dev = "open"
    /\ lastOp.op = "set_frame_format"
    /\ camera_format.format = "MJPEG"
    /\ IsPlaying(Held)

\* C20: on every device that can be called, whatever the platform answers,
\* set_resolution(r) does and returns what set_camera_format does for the
\* current format with resolution r, and set_frame_rate(n) what it does for
\* the current format with frame rate n; when they return Ok, camera_format()
\* is the old one with that one field replaced.
C20_WrappersDelegate ==
    (CanCall /\ nbuilt < MaxPipelines) =>
        \A so \in Outcomes, g \in GenChoices, oo \in Outcomes :
            /\ \A r \in Resolutions :
                  LET fmt == [camera_format EXCEPT !.resolution = r]
                      w == set_resolution(Self, r, nbuilt + 1, so, g.launch,
                                          g.out, g.early, oo)
                  IN  /\ w = set_camera_format(Self, fmt, nbuilt + 1, so,
                                               g.launch, g.out, g.early, oo)
                      /\ w.res = "Ok" => w.self.camera_format = fmt
            /\ \A n \in FrameRates :
                  LET fmt == [camera_format EXCEPT !.framerate = n]
                      w == set_frame_rate(Self, n, nbuilt + 1, so, g.launch,
                                          g.out, g.early, oo)
                  IN  /\ w = set_camera_format(Self, fmt, nbuilt + 1, so,
                                               g.launch, g.out, g.early, oo)
                      /\ w.res = "Ok" => w.self.camera_format = fmt

\* set_resolution(1280x720) has returned Ok on a YUYV device running at 30.
C20_Witness ==
    /\ dev = "open"
    /\ lastOp.op = "set_resolution" /\ lastOp.res = "Ok"
    /\ camera_format =
          [resolution |-> <<1280, 720>>, format |-> "YUYV", framerate |-> 30]

\* ---- the properties of the decode callback, under SpecDecode
FrameLen == Width(camera_format) * Height(camera_format) * 3

\* C12: every image pushed to the frame channel has exactly
\* width * height * 3 bytes, whatever the layout; a decode that yields fewer
\* bytes is padded with zeros at its end, its own bytes kept, and is pushed,
\* never rejected.
C12_ImageLength ==
    /\ \A i \in 1..Len(pushed) : pushed[i].len = FrameLen
    /\ result.op = "new_sample" =>
          LET decoded == DecodedLen(result.arg.size, Width(camera_format),
                                    Height(camera_format))
          IN  /\ Decodable(result.arg) => result.ans.flow = "Ok"
              /\ result.ans.flow = "Ok" =>
                    /\ result.ans.frame.len = FrameLen
                    /\ result.ans.vec.len = FrameLen
                    /\ result.ans.vec.kept + result.ans.vec.zeros = FrameLen
                    /\ decoded <= FrameLen => result.ans.vec.kept = decoded

C12_Witness ==
    /\ result.op = "new_sample"
    /\ result.arg.size = "short"
    /\ result.ans.flow = "Ok"
    /\ result.ans.vec.zeros = 3
    /\ pushed # <<>>

\* ---- the properties of the capability queries, under SpecQuery
\* The device answered the last query on its capability records.
Listing == dev = "open" /\ result.op = "compatible_list_by_resolution"

Records == IF caps = NoCaps THEN <<>> ELSE caps[1]

\* The records of the media type the last query asked for.
Matching == SelectSeq(Records, LAMBDA c : Matches(c, result.arg))

Complete(c) == c.width # <<>> /\ c.height # <<>> /\ c.framerate # <<>>

\* A fraction "n/d": one slash, digits on both sides.
IsNumeral(str) == str # <<>> /\ \A i \in 1..Len(str) : str[i] \in Digits

WellFormed(token) ==
    /\ Len(split(token)) = 2
    /\ IsNumeral(split(token)[1])
    /\ IsNumeral(split(token)[2])

\* The numerators of the fractions whose denominator is 1, in order.
UnitRates(tokens) ==
    LET units == SelectSeq(tokens, LAMBDA t : split(t)[2] = <<"1">>)
    IN  [i \in 1..Len(units) |-> Numeral(split(units[i])[1])]

\* The last record of Matching with resolution res: the one whose entry the
\* map keeps.
LastOf(res) ==
    Matching[CHOOSE j \in 1..Len(Matching) :
                /\ <<Matching[j].width[1], Matching[j].height[1]>> = res
                /\ \A h \in (j + 1)..Len(Matching) :
                      <<Matching[h].width[1], Matching[h].height[1]>> # res]

\* C13: when every fraction of the matching records is a well-formed n/d,
\* the query answers Ok and the rates stored for a resolution are exactly the
\* numerators of the fractions with denominator 1, in order; a fraction with
\* another denominator contributes nothing.
C13_OnlyWholeRates ==
    (/\ Listing /\ caps # NoCaps
     /\ \A j \in 1..Len(Matching) :
           /\ Complete(Matching[j])
           /\ \A t \in 1..Len(Matching[j].framerate[1]) :
                 WellFormed(Matching[j].framerate[1][t]))
        => /\ result.ans.res = "Ok"
           /\ \A res \in DOMAIN result.ans.map :
                 result.ans.map[res] = UnitRates(LastOf(res).framerate[1])

\* C14: a fraction that is not a well-formed n/d in a matching record makes
\* the query answer CouldntQueryDevice, never Ok.
C14_MalformedFractionIsAnError ==
    (/\ Listing /\ caps # NoCaps
     /\ \A j \in 1..Len(Matching) : Complete(Matching[j])
     /\ \E j \in 1..Len(Matching) :
        \E t \in 1..Len(Matching[j].framerate[1]) :
           ~WellFormed(Matching[j].framerate[1][t]))
        => /\ result.ans.res = "Err"
           /\ result.ans.why = "CouldntQueryDevice"

\* C15: the query answers CouldntQueryDevice, and no part of a catalog, when
\* the camera has no capability records or a matching record lacks width,
\* height or framerate; records of another media type give no entry and no
\* error: the answer is that for the matching records alone.
C15_MissingFieldIsAnError ==
    Listing =>
        /\ (caps = NoCaps \/ \E j \in 1..Len(Matching) : ~Complete(Matching[j]))
              => /\ result.ans.res = "Err"
                 /\ result.ans.why = "CouldntQueryDevice"
                 /\ DOMAIN result.ans.map = {}
        /\ caps # NoCaps =>
              /\ result.ans
                    = compatible_list_by_resolution(<<Matching>>, result.arg)
              /\ \A res \in DOMAIN result.ans.map :
                    \E j \in 1..Len(Matching) :
                       /\ Complete(Matching[j])
                       /\ res = <<Matching[j].width[1], Matching[j].height[1]>>

C15_Witness ==
    /\ Listing /\ result.arg = "MJPEG"
    /\ Len(Records) = 2 /\ Len(Matching) = 1
    /\ Matching[1].width = <<>>
    /\ result.ans.res = "Err"

Reverse(v) == [i \in 1..Len(v) |-> v[Len(v) + 1 - i]]

\* C16: compatible_fourcc answers a list in ascending order without
\* duplicates that holds a format exactly when some record has its media
\* type, whatever the order of the records.
C16_FourccSortedAndComplete ==
    (dev = "open" /\ result.op = "compatible_fourcc" /\ caps # NoCaps) =>
        LET list == result.ans.list
        IN  /\ result.ans.res = "Ok"
            /\ \A i \in 1..(Len(list) - 1) : Rank(list[i]) < Rank(list[i + 1])
            /\ \A f \in FrameFormats :
                  (\E i \in 1..Len(list) : list[i] = f)
                      <=> \E j \in 1..Len(Records) : Matches(Records[j], f)
            /\ \A i \in 1..Len(list) : list[i] \in FrameFormats
            /\ compatible_fourcc(<<Reverse(Records)>>).list = list

C16_Witness ==
    /\ result.op = "compatible_fourcc"
    /\ Len(Records) = 2
    /\ Matches(Records[1], "YUYV") /\ Matches(Records[2], "MJPEG")
    /\ result.ans.list = <<"MJPEG", "YUYV">>

\* C17: set_camera_format of an entry of the catalog, resolution and rate,
\* answers Ok, the platform accepting every format the camera advertises.
\* Under SpecQuery every call of set_camera_format is RequestListed's.
C17_ListedFormatIsAccepted ==
    lastOp.op = "set_camera_format" => lastOp.res = "Ok"

\* ---- the frame channel between the callback and the pulls, under Spec
\* C21: the push of the callback never waits on the consumer.  In every
\* state, whatever is queued and whether or not a pull waits, the callback of
\* a running pipeline given a well-formed buffer appends its image to the
\* channel and answers Ok; it fails only when the channel's receiver is gone.
C21_PushNeverBlocks ==
    \A id \in Ids : \A k \in BufferKinds :
        (pipes[id].status \in {"held", "leaked"} /\ pipes[id].sinkq = <<>>
            /\ Decodable(Buffer(1, k)))
            => LET b == Buffer(pipes[id].produced + 1, k)
                   r == new_sample(id, [pipes[id] EXCEPT !.sinkq = <<b>>],
                                   chans[id])
               IN  IF chans[id].rx
                   THEN /\ r.flow = "Ok"
                        /\ r.chan.queue = Append(chans[id].queue, r.frame)
                   ELSE /\ r.flow = "Error"
                        /\ r.chan = chans[id]

\* Two frames are queued, none pulled: the second push found the first one
\* waiting.
C21_Witness ==
    /\ dev = "open"
    /\ Len(chans[receiver].queue) = 2
    /\ delivered = <<>>
    /\ pushed = chans[receiver].queue

\* C23: a pull and a reconfiguration of one device never overlap.  While a
\* pull is in progress (it waits in recv), no step replaces the handles or the
\* format of the device, and the only call that starts or ends is the pull.
C23_ReconfigureExclusive ==
    [][(pc # "idle" \/ pc' # "idle")
          => /\ UNCHANGED <<dev, pipeline, app_sink, receiver, camera_format>>
             /\ lastOp'.op \in Pulls \/ lastOp' = lastOp]_vars

\* A pull waits in recv on a device that could still be reconfigured.
C23_Witness ==
    /\ dev = "open"
    /\ pc \in Pulls
    /\ IsPlaying(Held)
    /\ nbuilt < MaxPipelines

\* ---- the catalog of several records of one resolution, under SpecQuery
\* The rates the query reads from one record alone.
RatesOf(capability) ==
    fps_of(find_iter(framerate_string(capability.framerate[1]), 1), <<>>).fps

\* C24: when the query answers Ok, the entry of a resolution holds the rates
\* of every matching record of that resolution: no record's rates are lost
\* to a later record of the same resolution.
C24_NoRateLost ==
    (Listing /\ caps # NoCaps /\ result.ans.res = "Ok")
        => \A j \in 1..Len(Matching) :
              LET res == <<Matching[j].width[1], Matching[j].height[1]>>
                  own == RatesOf(Matching[j])
                  kept == result.ans.map[res]
              IN  \A i \in 1..Len(own) :
                     \E h \in 1..Len(kept) : kept[h] = own[i]

\* ---- reconfiguration and construction, under Spec
\* C25: a set_camera_format that answers an error leaves the device as it
\* was: the format, the handles, the frame channel, and whether the pipeline
\* is Playing.
C25_FailedReconfigureChangesNothing ==
    [][(lastOp'.op = "set_camera_format" /\ lastOp'.res = "Err"
            /\ lastOp' # lastOp)
          => /\ UNCHANGED <<camera_format, pipeline, app_sink, receiver>>
             /\ chans'[receiver'] = chans[receiver]
             /\ pipes'[pipeline'].cur = Held.cur
             /\ IsPlaying(pipes'[pipeline']) <=> IsPlaying(Held)]_vars

\* C26: the pipeline, the sink and the receiver the device holds come from
\* one generate_pipeline call; the receiver's channel has its sender in the
\* callback of the held sink and holds frames of that pipeline only; every
\* other channel has lost its receiver, so a replaced pipeline that still
\* runs pushes into nothing the device can pull from.
C26_HandlesOfOneBuild ==
    dev = "open" =>
        /\ pipeline = app_sink /\ app_sink = receiver
        /\ pipes[app_sink].status = "held"
        /\ chans[receiver].rx /\ chans[receiver].tx
        /\ \A f \in FramesOf(chans[receiver].queue) \cup FramesOf(delivered) :
              f.pipe = app_sink
        /\ \A id \in Ids \ {receiver} :
              /\ ~chans[id].rx
              /\ chans[id].queue = <<>>
              /\ pipes[id].status # "held"

\* A replaced pipeline still runs next to the one the device holds, which
\* has pushed a frame.
C26_Witness ==
    /\ dev = "open" /\ pipeline = 2
    /\ pipes[1].status = "leaked" /\ chans[1].tx
    /\ chans[2].queue # <<>>

\* C28: a device does not stream until open_stream is called.  After new has
\* answered Ok, and until the application's next call, the pipeline is not
\* Playing, is_stream_open would answer false and no frame has been pushed.
C28_NotStreamingUntilOpened ==
    (dev = "open" /\ lastOp.op = "new" /\ lastOp.res = "Ok")
        => /\ ~IsPlaying(Held)
           /\ ~is_stream_open(Probe(Held))
           /\ pushed = <<>>

\* ---- the callback and the streaming thread, under SpecBuild
\* C27: the callback is on the sink before the pipeline can deliver a buffer:
\* no buffer has reached the sink of the held pipeline without being passed
\* to the callback.
C27_CallbackBeforeBuffers ==
    dev = "open" => Held.sinkq = <<>>

\* ---- pulls, under SpecPull
\* The held pipeline is Playing, its bus holds no end of stream and no
\* error, and its streaming thread runs and has a buffer to deliver.
Delivering ==
    /\ dev = "open"
    /\ Held.cur = "Playing" /\ Held.flowing
    /\ \A i \in 1..Len(Held.bus) : Held.bus[i] \notin Terminal
    /\ Held.produced < MaxBuffers

PullAnswers ==
    CanCall =>
        \A api \in Pulls :
            LET a == frame_raw(Self, api)
                queue == chans[receiver].queue
            IN  IF Held.bus # <<>> /\ Head(Held.bus) \in Terminal
                THEN a.res = "Err" /\ a.self.chans = chans
                ELSE IF queue # <<>>
                THEN /\ a.res = "Ok"
                     /\ a.frame = Head(queue)
                     /\ a.self.chans[receiver].queue = Tail(queue)
                ELSE a.res = "Block"

====
